---- MODULE Spec2Model ----
(***************************************************************************)
(* Model of python-api/dungeoncoder.py: the transport (send_request), the  *)
(* envelope parser (parse_api_response), the Hero and Level clients and    *)
(* the Game facade.  The game engine, the network and the file system are  *)
(* the environment: every call draws the environment's answer from a       *)
(* bounded set.                                                            *)
(***************************************************************************)
EXTENDS Integers, Sequences, FiniteSets, TLC

VARIABLES pc, hero, level, lastCall, outcome, stdout, wire, sent

vars == <<pc, hero, level, lastCall, outcome, stdout, wire, sent>>

(***************************************************************************)
(* Bounds of the model.                                                    *)
(***************************************************************************)
\* JSON integers are drawn from 0..MaxNum
MaxNum == 1
\* an undecodable body is either short or TruncLen + MaxExtra characters long
MaxExtra == 2

(***************************************************************************)
(* Python values, as tagged records.                                       *)
(***************************************************************************)
None == [t |-> "None"]
PyBool(b) == [t |-> "bool", b |-> b]
PyInt(n) == [t |-> "int", n |-> n]
PyStr(s) == [t |-> "str", s |-> s]
PyList(a) == [t |-> "list", a |-> a]
PyDict(o) == [t |-> "dict", o |-> o]
True == PyBool(TRUE)
False == PyBool(FALSE)
EmptyDict == PyDict([k \in {} |-> None])

\* how a call ends: with a value or with an exception
Return(v) == [kind |-> "return", value |-> v]
Raise(cls, msg) == [kind |-> "raise", exc |-> [cls |-> cls, msg |-> msg]]

Min(a, b) == IF a < b THEN a ELSE b

\* s[:n]
Slice(s, n) == SubSeq(s, 1, Min(n, Len(s)))

\* sub in s, for two str
IsSubstr(sub, s) ==
    \E i \in 1..(Len(s) - Len(sub) + 1) : SubSeq(s, i, i + Len(sub) - 1) = sub

Digit(d) == CASE d = 0 -> "0" [] d = 1 -> "1" [] d = 2 -> "2" [] d = 3 -> "3"
              [] d = 4 -> "4" [] d = 5 -> "5" [] d = 6 -> "6" [] d = 7 -> "7"
              [] d = 8 -> "8" [] d = 9 -> "9"

RECURSIVE IntStr(_)
IntStr(n) == IF n < 10 THEN Digit(n) ELSE IntStr(n \div 10) \o Digit(n % 10)

\* str(v), as an f-string formats a value
Str(v) == CASE v.t = "str" -> v.s
            [] v.t = "None" -> "None"
            [] v.t = "bool" -> (IF v.b THEN "True" ELSE "False")
            [] v.t = "int" -> IntStr(v.n)

\* a == b, for the Python values of the model
PyEq(a, b) == a = b

\* bool(v)
Truthy(v) == CASE v.t = "None" -> FALSE
               [] v.t = "bool" -> v.b
               [] v.t = "int" -> v.n # 0
               [] v.t = "str" -> v.s # ""
               [] v.t = "list" -> Len(v.a) > 0
               [] v.t = "dict" -> DOMAIN v.o # {}
               [] v.t = "Response" -> v.status_code < 400 \/ v.status_code >= 600

\* key in data: a membership test on dict, str and list, a TypeError on
\* values that are not containers
Contains(key, data) ==
    CASE data.t = "dict" -> Return(PyBool(key \in DOMAIN data.o))
      [] data.t = "str" -> Return(PyBool(IsSubstr(key, data.s)))
      [] data.t = "list" ->
            Return(PyBool(\E i \in 1..Len(data.a) : PyEq(data.a[i], PyStr(key))))
      [] OTHER -> Raise("TypeError", "argument is not iterable")

\* data[key] with a str key
GetItem(data, key) ==
    CASE data.t = "dict" ->
            IF key \in DOMAIN data.o THEN Return(data.o[key])
            ELSE Raise("KeyError", key)
      [] data.t = "str" -> Raise("TypeError", "string indices must be integers")
      [] data.t = "list" -> Raise("TypeError", "list indices must be integers")
      [] OTHER -> Raise("TypeError", "object is not subscriptable")

\* data.get(key, default) of a dict
DictGet(data, key, default) ==
    IF key \in DOMAIN data.o THEN data.o[key] ELSE default

(***************************************************************************)
(* The requests library: responses and exception classes.                  *)
(***************************************************************************)
EmptyBody == [kind |-> "empty"]
TextBody(s) == [kind |-> "text", text |-> s]
JsonBody(v) == [kind |-> "json", doc |-> v]

Response(code, body) == [t |-> "Response", status_code |-> code, content |-> body]

\* direct base classes of the exception classes the model raises
Bases(cls) ==
    CASE cls = "HTTPError" -> {"RequestException"}
      [] cls = "ConnectionError" -> {"RequestException"}
      [] cls = "Timeout" -> {"RequestException"}
      [] cls = "ConnectTimeout" -> {"ConnectionError", "Timeout"}
      [] cls = "ReadTimeout" -> {"Timeout"}
      [] cls = "TooManyRedirects" -> {"RequestException"}
      [] cls = "InvalidJSONError" -> {"RequestException"}
      [] cls = "JSONDecodeError" -> {"InvalidJSONError", "ValueError"}
      [] cls = "RequestException" -> {"OSError"}
      [] cls = "OSError" -> {"Exception"}
      [] cls = "IsADirectoryError" -> {"OSError"}
      [] cls = "json.JSONDecodeError" -> {"ValueError"}
      [] cls = "ValueError" -> {"Exception"}
      [] cls = "TypeError" -> {"Exception"}
      [] cls = "KeyError" -> {"Exception"}
      [] cls = "RuntimeError" -> {"Exception"}
      [] cls = "Exception" -> {}

RECURSIVE Ancestors(_)
Ancestors(cls) == {cls} \cup UNION {Ancestors(b) : b \in Bases(cls)}

\* isinstance(exc, cls)
IsInstance(exc, cls) == cls \in Ancestors(exc.cls)

\* response.raise_for_status()
raise_for_status(response, url) ==
    IF response.status_code >= 400 /\ response.status_code < 500
    THEN Raise("HTTPError",
               IntStr(response.status_code) \o " Client Error for url: " \o url)
    ELSE IF response.status_code >= 500 /\ response.status_code < 600
    THEN Raise("HTTPError",
               IntStr(response.status_code) \o " Server Error for url: " \o url)
    ELSE Return(None)

\* response.json()
ResponseJson(response) ==
    IF response.content.kind = "json" THEN Return(response.content.doc)
    ELSE Raise("JSONDecodeError", "Expecting value")

\* response.text
ResponseText(response) ==
    IF response.content.kind = "text" THEN response.content.text ELSE ""

(***************************************************************************)
(* Transport.                                                              *)
(***************************************************************************)
\* what one call of send_request does: how it ends, the lines it prints and
\* the calls of requests.get / requests.post it makes
Effect(out, lines, reqs) == [out |-> out, stdout |-> lines, wire |-> reqs]

\* what one call of a command does: as Effect, and how each call of
\* send_request it made ended
Call(out, lines, reqs, sends) ==
    [out |-> out, stdout |-> lines, wire |-> reqs, sent |-> sends]

\* the call requests.get(url, json=data, headers=headers, timeout=timeout)
\* or requests.post(...)
HttpRequest(method, url, data, headers, timeout) ==
    [method |-> method, url |-> url, json |-> data, headers |-> headers,
     timeout |-> timeout]

\* the except clauses without the final catch-all
ExceptClauses_NoCatchAll ==
    <<"HTTPError", "ConnectionError", "Timeout", "RequestException",
      "JSONDecodeError">>

\* the except clauses of send_request, in the order they are written
ExceptClauses ==
    <<"HTTPError", "ConnectionError", "Timeout", "RequestException",
      "JSONDecodeError", "Exception">>

\* the first except clause that catches exc, 0 when none does
FirstMatch(exc) ==
    LET m == {i \in 1..Len(ExceptClauses) : IsInstance(exc, ExceptClauses[i])}
    IN  IF m = {} THEN 0 ELSE CHOOSE i \in m : \A j \in m : i <= j

\* the line the handler of an except clause prints
Diagnostic(clause, exc, url, text) ==
    CASE clause = "HTTPError" ->
            "HTTP error occurred: " \o exc.msg \o " for URL: " \o url
      [] clause = "ConnectionError" ->
            "Connection error occurred. Did you start the Dungeon Coder Plugin?"
      [] clause = "Timeout" ->
            "Timeout error occurred: " \o exc.msg
                \o ". Server took too long to respond."
      [] clause = "RequestException" ->
            "An unexpected request error occurred: " \o exc.msg
      [] clause = "JSONDecodeError" ->
            "Failed to decode JSON response from " \o url
                \o ". Response was:\n" \o Slice(text, 100) \o "..."
      [] clause = "Exception" ->
            "An unknown error occurred: " \o exc.msg

\* the except chain of send_request, entered with exception exc
Handle(exc, url, text, reqs) ==
    LET i == FirstMatch(exc)
    IN  IF i = 0 THEN Effect([kind |-> "raise", exc |-> exc], <<>>, reqs)
        ELSE Effect(Return(None),
                    <<Diagnostic(ExceptClauses[i], exc, url, text)>>, reqs)

\* send_request passing every method on to the network
send_request_AnyMethod(url, method, data, headers, timeout, net) ==
    LET reqs == <<HttpRequest(method, url, data, headers, timeout)>>
    IN  IF net.kind = "raise" THEN Handle(net.exc, url, "", reqs)
        ELSE LET response == net.value
                 st == raise_for_status(response, url)
             IN  IF st.kind = "raise"
                 THEN Handle(st.exc, url, ResponseText(response), reqs)
                 ELSE Effect(Return(response), <<>>, reqs)

\* send_request(url, method, data, headers, timeout); net is what the call
\* of requests.get / requests.post does when it is made: Return(response) or
\* Raise(cls, msg)
send_request(url, method, data, headers, timeout, net) ==
    IF method \in {"GET", "POST"}
    THEN LET reqs == <<HttpRequest(method, url, data, headers, timeout)>>
         IN  IF net.kind = "raise" THEN Handle(net.exc, url, "", reqs)
             ELSE LET response == net.value
                      st == raise_for_status(response, url)
                  IN  IF st.kind = "raise"
                      THEN Handle(st.exc, url, ResponseText(response), reqs)
                      ELSE Effect(Return(response), <<>>, reqs)
    ELSE Effect(Return(None),
                <<"Error: Method " \o method \o " not implemented!">>, <<>>)

(***************************************************************************)
(* Envelope parser.                                                        *)
(***************************************************************************)
TruncLen == 50
FallbackMsg == "API response payload indicated failure."

\* ParseData returning the truth value of the result
ParseData_bool(data) ==
    LET hasStatus == Contains("status", data)
    IN  IF hasStatus.kind = "raise" THEN hasStatus
        ELSE IF hasStatus.value.b /\ Contains("result", data).value.b
        THEN LET status == GetItem(data, "status")
             IN  IF status.kind = "raise" THEN status
                 ELSE IF PyEq(status.value, PyStr("success"))
                 THEN Return(PyBool(Truthy(GetItem(data, "result").value)))
                 ELSE Raise("RuntimeError",
                            "API operation failed: "
                              \o Str(DictGet(data, "message", PyStr(FallbackMsg))))
        ELSE Return(False)

\* the part of parse_api_response after response.json() returned data
ParseData(data) ==
    LET hasStatus == Contains("status", data)
    IN  IF hasStatus.kind = "raise" THEN hasStatus
        ELSE IF hasStatus.value.b /\ Contains("result", data).value.b
        THEN LET status == GetItem(data, "status")
             IN  IF status.kind = "raise" THEN status
                 ELSE IF PyEq(status.value, PyStr("success"))
                 THEN GetItem(data, "result")
                 ELSE Raise("RuntimeError",
                            "API operation failed: "
                              \o Str(DictGet(data, "message", PyStr(FallbackMsg))))
        ELSE Return(False)

\* parse_api_response without the test for an absent response
parse_api_response_NoNoneCheck(response) ==
    IF response = None
    THEN Raise("AttributeError", "'NoneType' object has no attribute 'content'")
    ELSE IF response.content.kind = "empty" THEN Return(False)
    ELSE LET decoded == ResponseJson(response)
         IN  IF decoded.kind = "raise"
             THEN Raise("RuntimeError",
                        "Failed to decode JSON. Response: "
                          \o Slice(ResponseText(response), TruncLen) \o "...")
             ELSE ParseData(decoded.value)

\* parse_api_response(response)
parse_api_response(response) ==
    IF ~Truthy(response) THEN Return(False)
    ELSE IF response.content.kind = "empty" THEN Return(False)
    ELSE LET decoded == ResponseJson(response)
         IN  IF decoded.kind = "raise"
             THEN IF IsInstance(decoded.exc, "JSONDecodeError")
                  THEN Raise("RuntimeError",
                             "Failed to decode JSON. Response: "
                               \o Slice(ResponseText(response), TruncLen)
                               \o "...")
                  ELSE decoded
             ELSE ParseData(decoded.value)

\* the default of send_request's timeout parameter
DefaultTimeout == 1

\* send_request followed by parse_api_response, as every command does
SendAndParse(url, method, data, headers, net) ==
    LET e == send_request(url, method, data, headers, DefaultTimeout, net)
    IN  IF e.out.kind = "raise"
        THEN Call(e.out, e.stdout, e.wire, <<e.out>>)
        ELSE Call(parse_api_response(e.out.value), e.stdout, e.wire, <<e.out>>)

(***************************************************************************)
(* The environment: what the engine answers, what the network does, what   *)
(* the file system holds.                                                  *)
(***************************************************************************)
JsonNums == {PyInt(n) : n \in 0..MaxNum}
StatusVals == {PyStr("success"), PyStr("error"), None}
ResultVals == {True, False, None, EmptyDict} \cup JsonNums
MessageVals == {PyStr("wall ahead")}

\* the JSON objects over the keys of the envelope
Envelopes ==
    {PyDict(o) : o \in UNION {[K -> StatusVals \cup ResultVals \cup MessageVals]
                                : K \in SUBSET {"status", "result", "message"}}}

WellTyped(d) ==
    /\ "status" \in DOMAIN d.o => d.o["status"] \in StatusVals
    /\ "result" \in DOMAIN d.o => d.o["result"] \in ResultVals
    /\ "message" \in DOMAIN d.o => d.o["message"] \in MessageVals

\* the JSON documents the engine may answer with
JsonDocs ==
    {d \in Envelopes : WellTyped(d)}
      \cup JsonNums
      \cup {None, True, PyStr("status result"), PyStr("abc"),
            PyList(<<PyStr("status"), PyStr("result")>>), PyList(<<>>)}

\* a text of n characters that is not JSON
RECURSIVE Garbage(_)
Garbage(n) == IF n = 0 THEN "" ELSE "<" \o Garbage(n - 1)

Bodies ==
    {EmptyBody, TextBody(Garbage(6)), TextBody(Garbage(TruncLen + MaxExtra))}
      \cup {JsonBody(d) : d \in JsonDocs}

\* the responses of the engine: every body under a 200, a few under the
\* other classes of status code
Responses ==
    {Response(200, b) : b \in Bodies}
      \cup {Response(c, b) :
               c \in {204, 404, 500},
               b \in {EmptyBody,
                      JsonBody(PyDict([k \in {"status", "result"} |->
                                 IF k = "status" THEN PyStr("success") ELSE True]))}}

\* the exceptions requests.get / requests.post may raise
Faults ==
    {Raise("ConnectionError", "Connection refused"),
     Raise("ConnectTimeout", "Connection to localhost timed out"),
     Raise("ReadTimeout", "Read timed out"),
     Raise("TooManyRedirects", "Exceeded 30 redirects"),
     Raise("ValueError", "Invalid timeout"),
     Raise("TypeError", "unexpected argument")}

NetOutcomes == {Return(r) : r \in Responses} \cup Faults

\* the level files a script may name, and what the file system holds there
Filenames == {"missing.json", "levels", "broken.json", "level1.json"}

\* os.path.exists(filename)
Exists(filename) == filename # "missing.json"

\* open(filename, 'r') followed by json.load(f)
ReadLevel(filename) ==
    CASE filename = "levels" -> Raise("IsADirectoryError", "Is a directory: " \o filename)
      [] filename = "broken.json" -> Raise("json.JSONDecodeError", "Expecting value")
      [] filename = "level1.json" ->
            Return(PyDict([k \in {"name"} |-> PyStr("level1")]))

(***************************************************************************)
(* Hero, Level and Game.                                                   *)
(***************************************************************************)
BASE_URL == "http://localhost:3000"

\* Hero.__init__ and Level.__init__
Handle_init(base_url) == [BASE_URL |-> base_url]

\* the body of the Hero methods and of Level.reset
Command(self, path, method, data, net) ==
    SendAndParse(self.BASE_URL \o path, method, data, None, net)

\* Level.load without the test for a missing file
Level_load_NoExistsCheck(self, filename, net) ==
    IF ~Exists(filename)
    THEN Call(Raise("FileNotFoundError", "No such file or directory: " \o filename),
              <<>>, <<>>, <<>>)
    ELSE LET level_data == ReadLevel(filename)
         IN  IF level_data.kind = "raise" THEN Call(level_data, <<>>, <<>>, <<>>)
             ELSE SendAndParse(self.BASE_URL \o "/level/load", "POST",
                               level_data.value,
                               PyDict([k \in {"Content-Type"} |->
                                          PyStr("application/json")]),
                               net)

\* Level.load(filename)
Level_load(self, filename, net) ==
    IF ~Exists(filename)
    THEN Call(Return(PyDict([k \in {"status", "message"} |->
                 IF k = "status" THEN PyStr("error")
                 ELSE PyStr("File not found: " \o filename)])), <<>>, <<>>, <<>>)
    ELSE LET level_data == ReadLevel(filename)
         IN  IF level_data.kind = "raise" THEN Call(level_data, <<>>, <<>>, <<>>)
             ELSE SendAndParse(self.BASE_URL \o "/level/load", "POST",
                               level_data.value,
                               PyDict([k \in {"Content-Type"} |->
                                          PyStr("application/json")]),
                               net)

\* the line Game.__init__ prints when the load raised
LoadDiagnostic(level_file) ==
    "Error: Level " \o level_file
      \o " could not be loaded. Please make sure the file exists and is valid."

\* Game.__init__ without the try / except around the load
Game_init_NoTry(level_file, net) ==
    LET lvl == Handle_init(BASE_URL)
        load == Level_load(lvl, level_file, net)
    IN  [level |-> lvl,
         hero |-> IF load.out.kind = "raise" THEN None ELSE Handle_init(BASE_URL),
         out |-> IF load.out.kind = "raise" THEN load.out ELSE Return(None),
         stdout |-> load.stdout,
         wire |-> load.wire,
         sent |-> load.sent]

\* Game.__init__(level_file): the handles it leaves and what it does
Game_init(level_file, net) ==
    LET lvl == Handle_init(BASE_URL)
        load == Level_load(lvl, level_file, net)
    IN  [level |-> lvl,
         hero |-> Handle_init(BASE_URL),
         out |-> Return(None),
         stdout |-> IF load.out.kind = "raise"
                    THEN load.stdout \o <<LoadDiagnostic(level_file)>>
                    ELSE load.stdout,
         wire |-> load.wire,
         sent |-> load.sent]

(***************************************************************************)
(* The script: it constructs the Game once, then calls the hero, the level *)
(* and the functions of the module in any order, one statement at a time.  *)
(* lastCall, outcome, stdout, wire and sent describe the call the script   *)
(* has just made; they are cleared when it goes on to its next statement.  *)
(***************************************************************************)
Methods == {"GET", "POST", "PATCH", "DELETE"}
ConfigureArgs == {<<"Alarna the Mighty", 13>>}
RequestData == {None, PyDict([k \in {"name"} |-> PyStr("level1")])}

\* Game.get_hero()
get_hero == hero

NoCall == [op |-> "none"]

Init ==
    /\ pc = "start"
    /\ hero = None
    /\ level = None
    /\ lastCall = NoCall
    /\ outcome = Return(None)
    /\ stdout = <<>>
    /\ wire = <<>>
    /\ sent = <<>>

\* the observable effect of the call op(args), answered by net, is c
Record(op, args, net, c) ==
    /\ lastCall' = [op |-> op, args |-> args, net |-> net]
    /\ outcome' = c.out
    /\ stdout' = c.stdout
    /\ wire' = c.wire
    /\ sent' = c.sent

\* game = Game(level_file)
NewGame ==
    /\ pc = "start"
    /\ \E level_file \in Filenames, net \in NetOutcomes :
          LET g == Game_init(level_file, net)
          IN  /\ pc' = IF g.out.kind = "return" THEN "returned" ELSE "failed"
              /\ hero' = g.hero
              /\ level' = g.level
              /\ Record("Game", <<level_file>>, net, g)

\* a method of the hero that takes no argument
HeroCommand(op, method) ==
    /\ pc = "ready"
    /\ \E net \in NetOutcomes :
          Record(op, <<>>, net, Command(get_hero, "/hero/" \o op, method, None, net))
    /\ pc' = "returned"
    /\ UNCHANGED <<hero, level>>

configure ==
    /\ pc = "ready"
    /\ \E a \in ConfigureArgs, net \in NetOutcomes :
          Record("configure", a, net,
                 Command(get_hero, "/hero/configure", "POST",
                         PyDict([k \in {"name", "typeNumber"} |->
                                    IF k = "name" THEN PyStr(a[1]) ELSE PyInt(a[2])]),
                         net))
    /\ pc' = "returned"
    /\ UNCHANGED <<hero, level>>

move == HeroCommand("move", "POST")
turn_left == HeroCommand("turn_left", "POST")
interact == HeroCommand("interact", "POST")
is_collision_in_front == HeroCommand("is_collision_in_front", "GET")
is_switch_in_front == HeroCommand("is_switch_in_front", "GET")
is_facing_north == HeroCommand("is_facing_north", "GET")
is_torch_in_front == HeroCommand("is_torch_in_front", "GET")
is_at_goal == HeroCommand("is_at_goal", "GET")

\* level.load(filename)
load ==
    /\ pc = "ready"
    /\ \E filename \in Filenames, net \in NetOutcomes :
          Record("load", <<filename>>, net, Level_load(level, filename, net))
    /\ pc' = "returned"
    /\ UNCHANGED <<hero, level>>

\* level.reset()
reset ==
    /\ pc = "ready"
    /\ \E net \in NetOutcomes :
          Record("reset", <<>>, net, Command(level, "/level/reset", "POST", None, net))
    /\ pc' = "returned"
    /\ UNCHANGED <<hero, level>>

\* send_request(url, method, data), called by the script itself
SendRequest ==
    /\ pc = "ready"
    /\ \E method \in Methods, data \in RequestData, net \in NetOutcomes :
          LET url == BASE_URL \o "/hero/move"
              e == send_request(url, method, data, None, DefaultTimeout, net)
          IN  Record("send_request", <<url, method, data>>, net,
                     Call(e.out, e.stdout, e.wire, <<e.out>>))
    /\ pc' = "returned"
    /\ UNCHANGED <<hero, level>>

\* the script goes on to its next statement
NextStatement ==
    /\ pc = "returned"
    /\ pc' = "ready"
    /\ lastCall' = NoCall
    /\ outcome' = Return(None)
    /\ stdout' = <<>>
    /\ wire' = <<>>
    /\ sent' = <<>>
    /\ UNCHANGED <<hero, level>>

Next ==
    \/ NewGame
    \/ NextStatement
    \/ configure
    \/ move
    \/ turn_left
    \/ interact
    \/ is_collision_in_front
    \/ is_switch_in_front
    \/ is_facing_north
    \/ is_torch_in_front
    \/ is_at_goal
    \/ load
    \/ reset
    \/ SendRequest

Spec == Init /\ [][Next]_vars

(***************************************************************************)
(* Properties.                                                             *)
(***************************************************************************)
HeroOps ==
    {"configure", "move", "turn_left", "interact", "is_collision_in_front",
     "is_switch_in_front", "is_facing_north", "is_torch_in_front", "is_at_goal"}

\* the calls that end with return parse_api_response(response)
ParseOps == HeroOps \cup {"load", "reset"}

\* the last call made a call of send_request
Sent == lastCall # NoCall /\ sent # <<>>

\* the last call handed the value send_request returned to
\* parse_api_response, and ended as parse_api_response did
Parsed == Sent /\ lastCall.op \in ParseOps /\ sent[1].kind = "return"

\* ... and that value was a response whose body decoded to a JSON object
ParsedObject ==
    /\ Parsed
    /\ sent[1].value # None
    /\ sent[1].value.content.kind = "json"
    /\ sent[1].value.content.doc.t = "dict"

Doc == sent[1].value.content.doc.o

IsErrorCode(code) == code >= 400 /\ code < 600

\* the request of the last call failed at the transport layer
TransportFailed ==
    \/ lastCall.net.kind = "raise"
    \/ lastCall.net.kind = "return" /\ IsErrorCode(lastCall.net.value.status_code)

WallAhead ==
    PyDict([k \in {"status", "message"} |->
               IF k = "status" THEN PyStr("error") ELSE PyStr("wall ahead")])

AtGoal ==
    PyDict([k \in {"status", "result"} |->
               IF k = "status" THEN PyStr("success") ELSE True])

\* C1: whenever the decoded response has a status other than "success",
\* with or without a result key or a message key, the call raises
\* "API operation failed: " followed by the message if present, else by the
\* fallback string; Hero.move() raises "API operation failed: wall ahead" on
\* {"status":"error","message":"wall ahead"}.
C1_ErrorStatusRaises ==
    /\ (ParsedObject /\ "status" \in DOMAIN Doc /\ Doc["status"] # PyStr("success"))
          => outcome = Raise("RuntimeError",
                             "API operation failed: "
                               \o (IF "message" \in DOMAIN Doc
                                   THEN Str(Doc["message"]) ELSE FallbackMsg))
    /\ (lastCall.op = "move" /\ lastCall.net = Return(Response(200, JsonBody(WallAhead))))
          => outcome = Raise("RuntimeError", "API operation failed: wall ahead")

\* C2: whenever the decoded envelope has status "success", the call raises
\* nothing and returns the envelope's result, whatever its JSON type,
\* unchanged.
C2_SuccessReturnsResult ==
    (ParsedObject /\ "status" \in DOMAIN Doc /\ Doc["status"] = PyStr("success"))
        => /\ outcome.kind = "return"
           /\ "result" \in DOMAIN Doc => outcome.value = Doc["result"]

\* Hero.is_at_goal() returned True for {"status":"success","result":true}
C2_Witness ==
    /\ lastCall.op = "is_at_goal"
    /\ lastCall.net = Return(Response(200, JsonBody(AtGoal)))
    /\ outcome = Return(True)

\* C3: send_request never raises; it returns None when the network call
\* raised, when the HTTP status is 4xx or 5xx and when the method is not
\* supported, and it returns a response only when the request completed with
\* another status, and then that very response.
C3_SendNeverRaises ==
    Sent => \A i \in 1..Len(sent) :
              /\ sent[i].kind = "return"
              /\ sent[i].value # None =>
                    /\ lastCall.net.kind = "return"
                    /\ sent[i].value = lastCall.net.value
                    /\ ~IsErrorCode(lastCall.net.value.status_code)
              /\ (\/ TransportFailed
                  \/ lastCall.op = "send_request"
                       /\ lastCall.args[2] \notin {"GET", "POST"})
                    => sent[i].value = None

\* send_request returned None after a fault that only the catch-all catches
C3_Witness ==
    /\ Sent
    /\ lastCall.net = Raise("ValueError", "Invalid timeout")
    /\ wire # <<>>
    /\ sent = <<Return(None)>>

\* C4: parse_api_response returns False, raising nothing, when the response
\* is absent, when its body is empty and when its body is {}; so every
\* command whose request fails at the transport layer returns a falsy value.
C4_SilentFalse ==
    /\ Parsed =>
          ((\/ sent[1].value = None
            \/ sent[1].value.content = EmptyBody
            \/ sent[1].value.content = JsonBody(EmptyDict))
              => outcome = Return(False))
    /\ (Sent /\ lastCall.op \in ParseOps /\ TransportFailed)
          => outcome.kind = "return" /\ ~Truthy(outcome.value)

\* Hero.move() returned False when the connection was refused
C4_Witness ==
    /\ lastCall.op = "move"
    /\ lastCall.net = Raise("ConnectionError", "Connection refused")
    /\ outcome = Return(False)

\* C5: send_request called with a method other than GET and POST makes no
\* network request and returns None, whatever its other arguments.
C5_UnsupportedMethodIsLocal ==
    (lastCall.op = "send_request" /\ lastCall.args[2] \notin {"GET", "POST"})
        => wire = <<>> /\ outcome = Return(None)

\* send_request(url, "PATCH") returned None
C5_Witness ==
    /\ lastCall.op = "send_request"
    /\ lastCall.args[2] = "PATCH"
    /\ outcome = Return(None)

\* C6: Level.load of a file that does not exist returns
\* {"status": "error", "message": "File not found: <filename>"} and makes no
\* HTTP request; a POST to /level/load is made only after the file was
\* found and parsed as JSON, and carries what was parsed.
C6_MissingFileIsLocal ==
    /\ (lastCall.op = "load" /\ ~Exists(lastCall.args[1]))
          => /\ wire = <<>>
             /\ outcome.kind = "return"
             /\ outcome.value.t = "dict"
             /\ DOMAIN outcome.value.o = {"status", "message"}
             /\ outcome.value.o["status"] = PyStr("error")
             /\ outcome.value.o["message"]
                  = PyStr("File not found: " \o lastCall.args[1])
    /\ \A i \in 1..Len(wire) :
          wire[i].url = BASE_URL \o "/level/load"
            => /\ lastCall.op \in {"load", "Game"}
               /\ wire[i].method = "POST"
               /\ Exists(lastCall.args[1])
               /\ ReadLevel(lastCall.args[1]) = Return(wire[i].json)

\* Level.load("missing.json") returned the error value
C6_Witness ==
    /\ lastCall.op = "load"
    /\ lastCall.args = <<"missing.json">>
    /\ outcome.kind = "return"
    /\ outcome.value.t = "dict"
    /\ outcome.value.o["message"] = PyStr("File not found: missing.json")

\* C7: constructing the Game always completes, whatever became of the load,
\* and from then on get_hero() is a Hero bound to the base URL of the Level.
C7_GameAlwaysConstructs ==
    /\ pc # "failed"
    /\ lastCall.op = "Game" => outcome = Return(None)
    /\ pc # "start" =>
          /\ get_hero # None
          /\ level # None
          /\ get_hero.BASE_URL = level.BASE_URL

\* Game("broken.json") was constructed although json.load raised
C7_Witness ==
    /\ lastCall.op = "Game"
    /\ lastCall.args = <<"broken.json">>
    /\ pc = "returned"
    /\ get_hero = Handle_init(BASE_URL)

\* the level load of the last call, a constructor call, did not succeed
LoadFailed ==
    \/ ~Exists(lastCall.args[1])
    \/ ReadLevel(lastCall.args[1]).kind = "raise"
    \/ TransportFailed

\* C8: whenever the load attempted by the Game constructor fails, the
\* file-not-found path and the JSON-decode path of the file included, the
\* constructor prints that the level could not be loaded.
C8_LoadFailurePrinted ==
    (lastCall.op = "Game" /\ LoadFailed)
        => \E i \in 1..Len(stdout) : stdout[i] = LoadDiagnostic(lastCall.args[1])

\* C9: parse_api_response returns the result, returns False or raises
\* RuntimeError; no other exception escapes it, whatever the body.
C9_OnlyRuntimeError ==
    (Parsed /\ outcome.kind = "raise") => outcome.exc.cls = "RuntimeError"

\* C10: when the timeout expires, while connecting or while waiting for the
\* response, send_request prints its timeout diagnostic, and it makes one
\* request, not a second one.
C10_TimeoutReported ==
    /\ Len(wire) <= 1
    /\ (/\ Sent
        /\ wire # <<>>
        /\ lastCall.net.kind = "raise"
        /\ lastCall.net.exc.cls \in {"ConnectTimeout", "ReadTimeout"})
          => stdout = <<"Timeout error occurred: " \o lastCall.net.exc.msg
                          \o ". Server took too long to respond.">>

====
